---- MODULE Spec2Model ----
(***************************************************************************)
(* Shape-level model of torchvision/models/video/s3d.py.                   *)
(*                                                                         *)
(* A tensor is represented by its shape <<N, C, T, H, W>>; a module by a   *)
(* record carrying its class, its channel counts, its kernel / stride /    *)
(* padding triples (time, height, width), its normalisation factory and    *)
(* its sub-modules.  Constructor calls are modelled with Python's argument *)
(* binding: a call is a class name, a sequence of positional values and    *)
(* the norm_layer keyword.                                                 *)
(*                                                                         *)
(* The model covers the classes TemporalSeparableConv, SepInceptionBlock3D *)
(* and S3D and the factory s3d.  Of the S3D_Weights declaration only the   *)
(* number of categories is used; its transforms entry, which calls         *)
(* functools.partial without a callable, is left out.                      *)
(***************************************************************************)
EXTENDS Integers, Sequences, FiniteSets, TLC

(***************************************************************************)
(* Bounds of the model.                                                    *)
(***************************************************************************)
MaxExtent == 4
MaxBatch == 2

\* time / height / width extents fed to the modules
Extents == (1..MaxExtent) \cup {64, 224}
\* extents fed to the whole network (the edges of the downsampling chain)
NetT == {1, MaxExtent, 12, 13, 64}
NetHW == {1, MaxExtent, 208, 209, 224}
Batches == 1..MaxBatch

(***************************************************************************)
(* Python values that appear as constructor arguments.                     *)
(***************************************************************************)
PyInt(i) == [tag |-> "int", n |-> i, items |-> <<>>, name |-> ""]
PyList(s) == [tag |-> "list", n |-> 0, items |-> s, name |-> ""]
PyCallable(f) == [tag |-> "callable", n |-> 0, items |-> <<>>, name |-> f]
PyNone == [tag |-> "None", n |-> 0, items |-> <<>>, name |-> ""]

PyInts(s) == [i \in 1..Len(s) |-> PyInt(s[i])]

(***************************************************************************)
(* Normalisation factories.                                                *)
(***************************************************************************)
\* partial(nn.BatchNorm3d, eps=1e-3, momentum=1e-3, affine=True)
SepNorm == "BatchNorm3d(eps=1e-3,momentum=1e-3,affine=True)"
\* partial(nn.BatchNorm3d, eps=0.001, momentum=0.001)
DefaultNorm == "BatchNorm3d(eps=0.001,momentum=0.001)"
\* a factory supplied by the caller
CustomNorm == "CustomNorm"
NoNorm == ""

NormOf(v) == IF v.tag = "callable" THEN v.name ELSE NoNorm

(***************************************************************************)
(* Modules.                                                                *)
(***************************************************************************)
Triple(a) == <<a, a, a>>

Module(cls, cin, cout, k, s, p, norm, bias, mods) ==
    [cls |-> cls, cin |-> cin, cout |-> cout, k |-> k, s |-> s, p |-> p,
     norm |-> norm, bias |-> bias, mods |-> mods]

NoModule == Module("none", 0, 0, Triple(0), Triple(0), Triple(0), NoNorm, FALSE, <<>>)

\* torchvision.ops.misc.Conv3dNormActivation: convolution, norm_layer(out), ReLU
Conv3dNormActivation(cin, cout, k, s, p, bias, norm) ==
    Module("Conv3dNormActivation", cin, cout, k, s, p, norm, bias, <<>>)

\* Conv3dNormActivation called without padding: padding = (kernel - 1) // 2
PointConv(cin, cout, norm) ==
    Conv3dNormActivation(cin, cout, Triple(1), Triple(1), Triple(0), FALSE, norm)

MaxPool3d(k, s, p) == Module("MaxPool3d", 0, 0, k, s, p, NoNorm, FALSE, <<>>)
AvgPool3d(k, s) == Module("AvgPool3d", 0, 0, k, s, Triple(0), NoNorm, FALSE, <<>>)
Dropout == Module("Dropout", 0, 0, Triple(1), Triple(1), Triple(0), NoNorm, FALSE, <<>>)
Conv3d(cin, cout, bias) ==
    Module("Conv3d", cin, cout, Triple(1), Triple(1), Triple(0), NoNorm, bias, <<>>)
Sequential(mods) ==
    Module("Sequential", 0, 0, Triple(0), Triple(0), Triple(0), NoNorm, FALSE, mods)

\* a second sub-convolution that forgets the temporal stride
TemporalConv_unstrided(out_planes, kernel_size, stride, padding) ==
    Conv3dNormActivation(out_planes, out_planes,
                         <<kernel_size, 1, 1>>, <<1, 1, 1>>, <<padding, 0, 0>>,
                         FALSE, SepNorm)

\* the second sub-convolution of a separable unit, as written in the source
TemporalConv(out_planes, kernel_size, stride, padding) ==
    Conv3dNormActivation(out_planes, out_planes,
                         <<kernel_size, 1, 1>>, <<stride, 1, 1>>, <<padding, 0, 0>>,
                         FALSE, SepNorm)

TemporalSeparableConv(in_planes, out_planes, kernel_size, stride, padding) ==
    Module("TemporalSeparableConv", in_planes, out_planes,
           Triple(kernel_size), Triple(stride), Triple(padding), SepNorm, FALSE,
           << Conv3dNormActivation(in_planes, out_planes,
                                   <<1, kernel_size, kernel_size>>,
                                   <<1, stride, stride>>,
                                   <<0, padding, padding>>, FALSE, SepNorm),
              TemporalConv(out_planes, kernel_size, stride, padding) >>)

(***************************************************************************)
(* Results of a call: an exception name (or "none"), the index of the      *)
(* top-level stage that raised (0 when not applicable), and the shape of   *)
(* the returned tensor.                                                    *)
(***************************************************************************)
Ok(dims) == [err |-> "none", at |-> 0, dims |-> dims]
Raise(e) == [err |-> e, at |-> 0, dims |-> <<>>]
RaiseAt(e, i) == [err |-> e, at |-> i, dims |-> <<>>]

(***************************************************************************)
(* Shape arithmetic of the tensor engine.                                  *)
(***************************************************************************)
ConvOut(n, k, s, p) == ((n + 2 * p - k) \div s) + 1

\* nn.Conv3d: channel check, then one extent per axis
ConvForward(m, d) ==
    IF d[2] # m.cin THEN Raise("RuntimeError")
    ELSE IF \E a \in 1..3 : d[a + 2] + 2 * m.p[a] < m.k[a] THEN Raise("RuntimeError")
    ELSE Ok(<<d[1], m.cout,
              ConvOut(d[3], m.k[1], m.s[1], m.p[1]),
              ConvOut(d[4], m.k[2], m.s[2], m.p[2]),
              ConvOut(d[5], m.k[3], m.s[3], m.p[3])>>)

\* nn.MaxPool3d / nn.AvgPool3d: channels kept, one extent per axis
PoolForward(m, d) ==
    IF \E a \in 1..3 : ConvOut(d[a + 2], m.k[a], m.s[a], m.p[a]) <= 0
    THEN Raise("RuntimeError")
    ELSE Ok(<<d[1], d[2],
              ConvOut(d[3], m.k[1], m.s[1], m.p[1]),
              ConvOut(d[4], m.k[2], m.s[2], m.p[2]),
              ConvOut(d[5], m.k[3], m.s[3], m.p[3])>>)

\* torch.cat(xs, 1): every extent but the channel one must agree
Cat(rs) ==
    IF \E i \in 1..Len(rs) : rs[i].err # "none"
    THEN rs[CHOOSE i \in 1..Len(rs) :
                /\ rs[i].err # "none"
                /\ \A j \in 1..(i - 1) : rs[j].err = "none"]
    ELSE IF \E i \in 2..Len(rs) : \E a \in {1, 3, 4, 5} : rs[i].dims[a] # rs[1].dims[a]
    THEN Raise("RuntimeError")
    ELSE LET RECURSIVE Sum(_)
             Sum(i) == IF i = 0 THEN 0 ELSE rs[i].dims[2] + Sum(i - 1)
         IN Ok(<<rs[1].dims[1], Sum(Len(rs)), rs[1].dims[3], rs[1].dims[4], rs[1].dims[5]>>)

RECURSIVE Forward(_, _)
RECURSIVE SeqForward(_, _, _)

\* nn.Sequential.forward: the modules in order, stopping at the first that raises
SeqForward(mods, i, r) ==
    IF i > Len(mods) THEN r
    ELSE LET q == Forward(mods[i], r.dims)
         IN IF q.err # "none" THEN RaiseAt(q.err, i)
            ELSE SeqForward(mods, i + 1, q)

\* SepInceptionBlock3D.forward
SepInceptionBlock3D_forward(m, d) ==
    Cat([b \in 1..4 |-> Forward(m.mods[b], d)])

\* S3D.forward: features, avgpool, classifier, mean over (2, 3, 4)
S3D_forward(m, d) ==
    LET f == SeqForward(m.mods[1].mods, 1, Ok(d))
        nf == Len(m.mods[1].mods)
    IN IF f.err # "none" THEN f
       ELSE LET a == Forward(m.mods[2], f.dims)
            IN IF a.err # "none" THEN RaiseAt(a.err, nf + 1)
               ELSE LET c == Forward(m.mods[3], a.dims)
                    IN IF c.err # "none" THEN RaiseAt(c.err, nf + 2)
                       ELSE Ok(<<c.dims[1], c.dims[2]>>)

Forward(m, d) ==
    CASE m.cls \in {"Conv3dNormActivation", "Conv3d"} -> ConvForward(m, d)
      [] m.cls \in {"MaxPool3d", "AvgPool3d"} -> PoolForward(m, d)
      [] m.cls = "Dropout" -> Ok(d)
      [] m.cls \in {"Sequential", "TemporalSeparableConv"} ->
            LET r == SeqForward(m.mods, 1, Ok(d))
            IN IF r.err # "none" THEN Raise(r.err) ELSE r
      [] m.cls = "SepInceptionBlock3D" -> SepInceptionBlock3D_forward(m, d)
      [] m.cls = "S3D" -> S3D_forward(m, d)

(***************************************************************************)
(* Constructors, with Python's argument binding.                           *)
(***************************************************************************)
\* a constructor call: class, positional values, norm_layer keyword (PyNone
\* when the keyword is not written), and the pooling triples of a MaxPool3d
Call(cls, args, norm) ==
    [cls |-> cls, args |-> args, norm |-> norm,
     k |-> Triple(0), s |-> Triple(0), p |-> Triple(0)]
PoolCall(k, s, p) ==
    [cls |-> "MaxPool3d", args |-> <<>>, norm |-> PyNone, k |-> k, s |-> s, p |-> p]

Built(m) == [err |-> "none", obj |-> m]
Failed(e) == [err |-> e, obj |-> NoModule]

\* [b0_out], [b1_mid, b1_out], [b2_mid, b2_out], [b3_out] = branch_layers
BranchShape == <<1, 2, 2, 1>>
UnpackError(branch_layers) ==
    IF branch_layers.tag # "list" THEN "TypeError"
    ELSE IF Len(branch_layers.items) # 4 THEN "ValueError"
    ELSE IF \E b \in 1..4 : branch_layers.items[b].tag # "list" THEN "TypeError"
    ELSE IF \E b \in 1..4 : Len(branch_layers.items[b].items) # BranchShape[b]
         THEN "ValueError"
    ELSE "none"

\* the body of SepInceptionBlock3D.__init__ once its parameters are bound
SepInceptionBlock3D_body(in_planes, branch_layers, norm_layer) ==
    LET b0_out == branch_layers.items[1].items[1].n
        b1_mid == branch_layers.items[2].items[1].n
        b1_out == branch_layers.items[2].items[2].n
        b2_mid == branch_layers.items[3].items[1].n
        b2_out == branch_layers.items[3].items[2].n
        b3_out == branch_layers.items[4].items[1].n
        norm == IF norm_layer.tag = "None" THEN DefaultNorm ELSE NormOf(norm_layer)
    IN Module("SepInceptionBlock3D", in_planes, b0_out + b1_out + b2_out + b3_out,
              Triple(0), Triple(0), Triple(0), norm, FALSE,
              << PointConv(in_planes, b0_out, norm),
                 Sequential(<< PointConv(in_planes, b1_mid, norm),
                               TemporalSeparableConv(b1_mid, b1_out, 3, 1, 1) >>),
                 Sequential(<< PointConv(in_planes, b2_mid, norm),
                               TemporalSeparableConv(b2_mid, b2_out, 3, 1, 1) >>),
                 Sequential(<< MaxPool3d(Triple(3), Triple(1), Triple(1)),
                               PointConv(in_planes, b3_out, norm) >>) >>)

\* SepInceptionBlock3D(*args, norm_layer=kw): the signature is
\* (self, in_planes, branch_layers, norm_layer=None)
SepInceptionBlock3D_init(args, kw) ==
    IF Len(args) > 3 THEN Failed("TypeError")
    ELSE IF Len(args) < 2 THEN Failed("TypeError")
    ELSE IF Len(args) = 3 /\ kw.tag # "None" THEN Failed("TypeError")
    ELSE IF UnpackError(args[2]) # "none" THEN Failed(UnpackError(args[2]))
    ELSE Built(SepInceptionBlock3D_body(args[1].n, args[2],
                                        IF Len(args) = 3 THEN args[3] ELSE kw))

\* one element of the argument list of nn.Sequential in S3D.__init__
Construct(c) ==
    CASE c.cls = "TemporalSeparableConv" ->
            Built(TemporalSeparableConv(c.args[1].n, c.args[2].n, c.args[3].n,
                                        c.args[4].n, c.args[5].n))
      [] c.cls = "MaxPool3d" -> Built(MaxPool3d(c.k, c.s, c.p))
      [] c.cls = "Conv3dNormActivation" ->
            Built(PointConv(c.args[1].n, c.args[2].n, NormOf(c.norm)))
      [] c.cls = "SepInceptionBlock3D" -> SepInceptionBlock3D_init(c.args, c.norm)

\* a stage list whose first pooling stage follows the stem point convolution
S3D_features_calls_pool_after_conv(norm_layer) ==
    << Call("TemporalSeparableConv", PyInts(<<3, 64, 7, 2, 3>>), PyNone),
       Call("Conv3dNormActivation", PyInts(<<64, 64>>), norm_layer),
       PoolCall(<<1, 3, 3>>, <<1, 2, 2>>, <<0, 1, 1>>),
       Call("TemporalSeparableConv", PyInts(<<64, 192, 3, 1, 1>>), PyNone),
       PoolCall(<<1, 3, 3>>, <<1, 2, 2>>, <<0, 1, 1>>),
       Call("SepInceptionBlock3D", PyInts(<<192, 64, 96, 128, 16, 32, 32>>), PyNone),
       Call("SepInceptionBlock3D", PyInts(<<256, 128, 128, 192, 32, 96, 64>>), PyNone),
       PoolCall(<<3, 3, 3>>, <<2, 2, 2>>, <<1, 1, 1>>),
       Call("SepInceptionBlock3D", PyInts(<<480, 192, 96, 208, 16, 48, 64>>), PyNone),
       Call("SepInceptionBlock3D", PyInts(<<512, 160, 112, 224, 24, 64, 64>>), PyNone),
       Call("SepInceptionBlock3D", PyInts(<<512, 128, 128, 256, 24, 64, 64>>), PyNone),
       Call("SepInceptionBlock3D", PyInts(<<512, 112, 144, 288, 32, 64, 64>>), PyNone),
       Call("SepInceptionBlock3D", PyInts(<<528, 256, 160, 320, 32, 128, 128>>), PyNone),
       PoolCall(<<2, 2, 2>>, <<2, 2, 2>>, <<0, 0, 0>>),
       Call("SepInceptionBlock3D", PyInts(<<832, 256, 160, 320, 32, 128, 128>>), PyNone),
       Call("SepInceptionBlock3D", PyInts(<<832, 384, 192, 384, 48, 128, 128>>), PyNone) >>

\* the stage constructor calls of self.features, in source order
S3D_features_calls(norm_layer) ==
    << Call("TemporalSeparableConv", PyInts(<<3, 64, 7, 2, 3>>), PyNone),
       PoolCall(<<1, 3, 3>>, <<1, 2, 2>>, <<0, 1, 1>>),
       Call("Conv3dNormActivation", PyInts(<<64, 64>>), norm_layer),
       Call("TemporalSeparableConv", PyInts(<<64, 192, 3, 1, 1>>), PyNone),
       PoolCall(<<1, 3, 3>>, <<1, 2, 2>>, <<0, 1, 1>>),
       Call("SepInceptionBlock3D", PyInts(<<192, 64, 96, 128, 16, 32, 32>>), PyNone),
       Call("SepInceptionBlock3D", PyInts(<<256, 128, 128, 192, 32, 96, 64>>), PyNone),
       PoolCall(<<3, 3, 3>>, <<2, 2, 2>>, <<1, 1, 1>>),
       Call("SepInceptionBlock3D", PyInts(<<480, 192, 96, 208, 16, 48, 64>>), PyNone),
       Call("SepInceptionBlock3D", PyInts(<<512, 160, 112, 224, 24, 64, 64>>), PyNone),
       Call("SepInceptionBlock3D", PyInts(<<512, 128, 128, 256, 24, 64, 64>>), PyNone),
       Call("SepInceptionBlock3D", PyInts(<<512, 112, 144, 288, 32, 64, 64>>), PyNone),
       Call("SepInceptionBlock3D", PyInts(<<528, 256, 160, 320, 32, 128, 128>>), PyNone),
       PoolCall(<<2, 2, 2>>, <<2, 2, 2>>, <<0, 0, 0>>),
       Call("SepInceptionBlock3D", PyInts(<<832, 256, 160, 320, 32, 128, 128>>), PyNone),
       Call("SepInceptionBlock3D", PyInts(<<832, 384, 192, 384, 48, 128, 128>>), PyNone) >>

\* the arguments are evaluated left to right; the first call that raises ends
\* the construction with the stages evaluated so far discarded
RECURSIVE EvalArgs(_, _, _)
EvalArgs(calls, i, acc) ==
    IF i > Len(calls) THEN [err |-> "none", at |-> 0, mods |-> acc]
    ELSE LET b == Construct(calls[i])
         IN IF b.err # "none" THEN [err |-> b.err, at |-> i, mods |-> acc]
            ELSE EvalArgs(calls, i + 1, Append(acc, b.obj))

DefaultNumClasses == 400
ClassifierIn == 1024

\* S3D.__init__(norm_layer, num_classes, dropout)
S3D_init(norm_layer, num_classes) ==
    LET norm == IF norm_layer.tag = "None" THEN PyCallable(DefaultNorm) ELSE norm_layer
        f == EvalArgs(S3D_features_calls(norm), 1, <<>>)
    IN IF f.err # "none"
       THEN [err |-> f.err, at |-> f.at, evald |-> f.mods, obj |-> NoModule]
       ELSE [err |-> "none", at |-> 0, evald |-> f.mods,
             obj |-> Module("S3D", 3, num_classes, Triple(0), Triple(0), Triple(0),
                            NormOf(norm), TRUE,
                            << Sequential(f.mods),
                               AvgPool3d(<<2, 7, 7>>, Triple(1)),
                               Sequential(<< Dropout,
                                             Conv3d(ClassifierIn, num_classes, TRUE) >>) >>)]

(***************************************************************************)
(* The s3d factory.                                                        *)
(***************************************************************************)
\* len(weights.meta["categories"]) for S3D_Weights.KINETICS400_V1
KineticsCategories == 400

\* _ovewrite_named_param(kwargs, "num_classes", n): a different value already
\* present in kwargs is an error, otherwise the entry is set
OverwriteNumClasses(has_nc, nc, n) ==
    IF has_nc /\ nc # n THEN [err |-> "ValueError", nc |-> nc]
    ELSE [err |-> "none", nc |-> n]

\* s3d(weights=..., **kwargs); ckpt_matches tells whether the state dict that
\* weights.get_state_dict returns has the names and shapes of the model
s3d(weights, has_nc, nc, norm_layer, ckpt_matches) ==
    LET o == IF weights # "None"
             THEN OverwriteNumClasses(has_nc, nc, KineticsCategories)
             ELSE [err |-> "none", nc |-> IF has_nc THEN nc ELSE DefaultNumClasses]
        m == S3D_init(norm_layer, o.nc)
    IN IF o.err # "none"
       THEN [err |-> o.err, at |-> 0, evald |-> <<>>, obj |-> NoModule, loaded |-> FALSE]
       ELSE IF m.err # "none"
       THEN [err |-> m.err, at |-> m.at, evald |-> m.evald, obj |-> NoModule,
             loaded |-> FALSE]
       ELSE IF weights = "None"
       THEN [err |-> "none", at |-> 0, evald |-> m.evald, obj |-> m.obj, loaded |-> FALSE]
       ELSE IF ~ckpt_matches
       THEN [err |-> "RuntimeError", at |-> 0, evald |-> m.evald, obj |-> NoModule,
             loaded |-> FALSE]
       ELSE [err |-> "none", at |-> 0, evald |-> m.evald, obj |-> m.obj, loaded |-> TRUE]

(***************************************************************************)
(* The state of a client program that constructs one module and applies it *)
(* to one tensor: its module variable, the last call made, what the call   *)
(* returned or raised, and the stages that an S3D construction had         *)
(* evaluated when it returned or raised.  An exception ends the program.   *)
(***************************************************************************)
VARIABLES obj, loaded, call, ret, evald

vars == <<obj, loaded, call, ret, evald>>

CallRec(op, x, args, norm, nc, weights, ckpt) ==
    [op |-> op, x |-> x, args |-> args, norm |-> norm, nc |-> nc,
     weights |-> weights, ckpt |-> ckpt]

\* inputs of the actions
UnitIn == {3, 64}
UnitOut == {64, 192}
UnitKernel == {1, 3, 7}
UnitStride == {1, 2}
UnitPadding == {0, 1, 3}
NumClassesChoices == {2, DefaultNumClasses}
NormChoices == {PyNone, PyCallable(CustomNorm)}
WeightChoices == {"None", "KINETICS400_V1"}

\* the branch configurations written in S3D.__init__, as written (flat) and in
\* the list form that the constructor destructures
FlatConfigs ==
    {S3D_features_calls(PyNone)[i].args : i \in
        {j \in 1..Len(S3D_features_calls(PyNone)) :
            S3D_features_calls(PyNone)[j].cls = "SepInceptionBlock3D"}}
ListForm(a) ==
    << a[1], PyList(<< PyList(<<a[2]>>), PyList(<<a[3], a[4]>>),
                       PyList(<<a[5], a[6]>>), PyList(<<a[7]>>) >>) >>
BlockArgs ==
    FlatConfigs \cup {ListForm(a) : a \in FlatConfigs}
        \cup {Append(ListForm(a), n) : a \in FlatConfigs, n \in NormChoices}

Init ==
    /\ obj = NoModule
    /\ loaded = FALSE
    /\ call = CallRec("none", <<>>, <<>>, PyNone, 0, "None", FALSE)
    /\ ret = Ok(<<>>)
    /\ evald = <<>>

\* the program has not made a call yet
Fresh == call.op = "none"

\* obj = TemporalSeparableConv(i, o, k, s, p)
NewTemporalSeparableConv ==
    /\ Fresh
    /\ \E i \in UnitIn, o \in UnitOut, k \in UnitKernel, s \in UnitStride, p \in UnitPadding :
        /\ obj' = TemporalSeparableConv(i, o, k, s, p)
        /\ loaded' = FALSE
        /\ call' = CallRec("TemporalSeparableConv", <<>>, PyInts(<<i, o, k, s, p>>),
                           PyNone, 0, "None", FALSE)
        /\ ret' = Ok(<<>>)
        /\ evald' = <<>>

\* obj = SepInceptionBlock3D(*args, norm_layer=kw)
NewSepInceptionBlock3D ==
    /\ Fresh
    /\ \E args \in BlockArgs, kw \in NormChoices :
        LET b == SepInceptionBlock3D_init(args, kw)
        IN /\ obj' = b.obj
           /\ loaded' = FALSE
           /\ call' = CallRec("SepInceptionBlock3D", <<>>, args, kw, 0, "None", FALSE)
           /\ ret' = IF b.err = "none" THEN Ok(<<>>) ELSE Raise(b.err)
           /\ evald' = <<>>

\* obj = S3D(norm_layer=norm, num_classes=nc)
NewS3D ==
    /\ Fresh
    /\ \E norm \in NormChoices, nc \in NumClassesChoices :
        LET m == S3D_init(norm, nc)
        IN /\ obj' = m.obj
           /\ loaded' = FALSE
           /\ call' = CallRec("S3D", <<>>, <<>>, norm, nc, "None", FALSE)
           /\ ret' = IF m.err = "none" THEN Ok(<<>>) ELSE RaiseAt(m.err, m.at)
           /\ evald' = m.evald

\* y = S3D(norm_layer=norm, num_classes=nc)(x)
RunS3D ==
    /\ Fresh
    /\ \E norm \in NormChoices, nc \in NumClassesChoices,
       n \in Batches, t \in NetT, h \in NetHW, w \in NetHW :
        LET m == S3D_init(norm, nc)
            x == <<n, 3, t, h, w>>
        IN /\ call' = CallRec("S3D()(x)", x, <<>>, norm, nc, "None", FALSE)
           /\ ret' = IF m.err = "none" THEN Forward(m.obj, x) ELSE Raise(m.err)
           /\ evald' = m.evald
           /\ UNCHANGED <<obj, loaded>>

\* obj = s3d(weights=weights, **kwargs)
NewFromFactory ==
    /\ Fresh
    /\ \E weights \in WeightChoices, has_nc \in BOOLEAN, nc \in NumClassesChoices,
       norm \in NormChoices, ckpt \in BOOLEAN :
        LET f == s3d(weights, has_nc, nc, norm, ckpt)
        IN /\ obj' = f.obj
           /\ loaded' = f.loaded
           /\ call' = CallRec("s3d", <<>>, <<>>, norm, IF has_nc THEN nc ELSE 0,
                              weights, ckpt)
           /\ ret' = IF f.err = "none" THEN Ok(<<>>) ELSE RaiseAt(f.err, f.at)
           /\ evald' = f.evald

\* y = obj(x)
Apply ==
    /\ obj.cls # "none"
    /\ call.op # "forward"
    /\ ret.err = "none"
    /\ \E n \in Batches, c \in {obj.cin, 3}, t \in Extents, h \in Extents, w \in Extents :
        LET x == <<n, c, t, h, w>>
        IN /\ call' = CallRec("forward", x, <<>>, PyNone, 0, "None", FALSE)
           /\ ret' = Forward(obj, x)
           /\ evald' = <<>>
           /\ UNCHANGED <<obj, loaded>>

Next ==
    \/ NewTemporalSeparableConv
    \/ NewSepInceptionBlock3D
    \/ NewS3D
    \/ RunS3D
    \/ NewFromFactory
    \/ Apply

Spec == Init /\ [][Next]_vars

(***************************************************************************)
(* Properties.                                                             *)
(***************************************************************************)
Sum4(q) == q[1] + q[2] + q[3] + q[4]

\* the Convolution-Normalization-Activation units of a module, each with the
\* normalisation it was built with and whether it sits in a separable unit
RECURSIVE Units(_, _)
Units(m, inSep) ==
    IF m.cls = "Conv3dNormActivation" THEN {[norm |-> m.norm, sep |-> inSep]}
    ELSE UNION {Units(m.mods[i], inSep \/ m.cls = "TemporalSeparableConv") :
                    i \in 1..Len(m.mods)}

\* output channel count of a stage fed with c channels
StageOut(m, c) == IF m.cls = "MaxPool3d" THEN c ELSE m.cout
\* input channel count a stage declares (a pooling stage declares none)
StageIn(m, c) == IF m.cls = "MaxPool3d" THEN c ELSE m.cin

RECURSIVE Chained(_, _, _)
Chained(mods, i, c) ==
    IF i > Len(mods) THEN TRUE
    ELSE StageIn(mods[i], c) = c /\ Chained(mods, i + 1, StageOut(mods[i], c))

RECURSIVE ChainOut(_, _, _)
ChainOut(mods, i, c) ==
    IF i > Len(mods) THEN c ELSE ChainOut(mods, i + 1, StageOut(mods[i], c))

\* C1: for every input (N,3,T,H,W) with H = W >= 224 and T >= 64 and every
\* num_classes, constructing S3D with the default norm_layer and applying it
\* returns a tensor of shape (N, num_classes).
C1_ForwardShape ==
    (/\ call.op = "S3D()(x)"
     /\ call.norm = PyNone
     /\ call.x[4] = call.x[5] /\ call.x[4] >= 224 /\ call.x[3] >= 64)
        => ret = Ok(<<call.x[1], call.nc>>)

\* C2: every Inception Block instantiated with the arguments that the Feature
\* Extractor passes is constructed with output channel count
\* b0_out + b1_out + b2_out + b3_out, and applied to (N,Cin,T,H,W) it returns
\* (N, b0_out + b1_out + b2_out + b3_out, T, H, W).
C2_InceptionBlockShape ==
    /\ (call.op = "SepInceptionBlock3D" /\ call.args \in FlatConfigs)
          => /\ ret.err = "none"
             /\ obj.cls = "SepInceptionBlock3D"
             /\ obj.cin = call.args[1].n
             /\ obj.cout = call.args[2].n + call.args[4].n + call.args[6].n
                              + call.args[7].n
    /\ (call.op = "forward" /\ obj.cls = "SepInceptionBlock3D" /\ call.x[2] = obj.cin)
          => /\ \A b \in 1..4 :
                   /\ Forward(obj.mods[b], call.x).err = "none"
                   /\ \A a \in 3..5 : Forward(obj.mods[b], call.x).dims[a] = call.x[a]
             /\ ret = Ok(<<call.x[1],
                           Sum4([b \in 1..4 |-> Forward(obj.mods[b], call.x).dims[2]]),
                           call.x[3], call.x[4], call.x[5]>>)
             /\ ret.dims[2] = obj.cout

\* the constructor arguments of the separable unit held in obj
UnitK == obj.k[1]
UnitS == obj.s[1]
UnitP == obj.p[1]
UnitFits == call.x[2] = obj.cin /\ \A a \in 3..5 : call.x[a] + 2 * UnitP >= UnitK
UnitApplied == call.op = "forward" /\ obj.cls = "TemporalSeparableConv"

\* the part of C3 that does not depend on how "halved" is read
UnitFormula ==
    UnitApplied =>
        /\ ret.err = "none" <=> UnitFits
        /\ ret.err = "none" =>
              /\ ret.dims[1] = call.x[1]
              /\ ret.dims[2] = obj.cout
              /\ \A a \in 3..5 :
                    /\ ret.dims[a] = ((call.x[a] + 2 * UnitP - UnitK) \div UnitS) + 1
                    /\ (UnitS = 1 /\ 2 * UnitP = UnitK - 1) => ret.dims[a] = call.x[a]
        /\ (/\ obj.cin = 3 /\ obj.cout = 64 /\ UnitK = 7 /\ UnitS = 2 /\ UnitP = 3
            /\ call.x = <<1, 3, 64, 224, 224>>)
              => ret = Ok(<<1, 64, 32, 112, 112>>)

\* C3, as stated: a Separable Unit (in, out, k, s, p) applied to (N,in,T,H,W)
\* yields out channels and on each of time, height and width the extent
\* floor((n+2p-k)/s)+1; with s = 1 and p = (k-1)/2 every extent is preserved,
\* and with s = 2 every extent is halved (to floor(n/2) or ceil(n/2)).
C3_Original ==
    /\ UnitFormula
    /\ (UnitApplied /\ ret.err = "none" /\ UnitS = 2)
          => \A a \in 3..5 : 2 * ret.dims[a] \in {call.x[a] - 1, call.x[a], call.x[a] + 1}

\* C3, amended: a Separable Unit (in, out, k, s, p) applied to (N,in,T,H,W)
\* yields out channels and on each of time, height and width the extent
\* floor((n+2p-k)/s)+1; with s = 1 and p = (k-1)/2 every extent is preserved,
\* and with s = 2 and p = (k-1)/2 every extent n becomes ceil(n/2); the unit
\* (3, 64, 7, 2, 3) maps (1,3,64,224,224) to (1,64,32,112,112).
C3_SeparableUnitShape ==
    /\ UnitFormula
    /\ (UnitApplied /\ ret.err = "none" /\ UnitS = 2 /\ 2 * UnitP = UnitK - 1)
          => \A a \in 3..5 : 2 * ret.dims[a] \in {call.x[a], call.x[a] + 1}

C3_Witness ==
    /\ UnitApplied
    /\ obj.cin = 3 /\ obj.cout = 64 /\ UnitK = 7 /\ UnitS = 2 /\ UnitP = 3
    /\ call.x = <<1, 3, 64, 224, 224>>
    /\ ret = Ok(<<1, 64, 32, 112, 112>>)

\* C4: after S3D is constructed, the Feature Extractor has its sixteen stages,
\* the declared input channel count of every stage equals the output channel
\* count of the stage before it, starting from 3, and the last stage's output
\* channel count, 1024, is the input channel count of the classifier's point
\* convolution.
C4_ChannelChain ==
    call.op = "S3D" =>
        /\ ret.err = "none"
        /\ obj.cls = "S3D"
        /\ Len(obj.mods[1].mods) = 16
        /\ Chained(obj.mods[1].mods, 1, 3)
        /\ ChainOut(obj.mods[1].mods, 1, 3) = 1024
        /\ obj.mods[3].mods[2].cin = 1024

\* the stage classes of the calls written in S3D.__init__
CallClasses == [i \in 1..Len(S3D_features_calls(call.norm)) |->
                    S3D_features_calls(call.norm)[i].cls]
PositionsOf(cls) == {i \in 1..Len(CallClasses) : CallClasses[i] = cls}

\* C5, as stated: of the stages that the construction of S3D evaluates, in
\* order, the pooling stages are exactly those that follow the stages at
\* positions 2, 7 and 13, and nine Inception Blocks are interleaved with these
\* three pooling stages.
C5_Original ==
    call.op = "S3D" =>
        /\ \A i \in 1..Len(evald) : evald[i].cls = "MaxPool3d" <=> i \in {3, 8, 14}
        /\ PositionsOf("MaxPool3d") = {3, 8, 14}
        /\ Cardinality(PositionsOf("SepInceptionBlock3D")) = 9

\* C5, amended: the ordered list of stage constructor calls of the Feature
\* Extractor has sixteen entries; the pooling stages are the four at positions
\* 2, 5, 8 and 14 (directly after the stages at positions 1, 4, 7 and 13); the
\* nine Inception Block calls are at positions 6, 7, 9..13, 15 and 16, after the
\* five-stage stem, with the pooling stages 8 and 14 between them; and the
\* stages that a construction evaluates are of these classes, in this order.
C5_PoolingPositions ==
    call.op = "S3D" =>
        /\ Len(CallClasses) = 16
        /\ PositionsOf("MaxPool3d") = {2, 5, 8, 14}
        /\ PositionsOf("SepInceptionBlock3D") = {6, 7} \cup (9..13) \cup {15, 16}
        /\ PositionsOf("TemporalSeparableConv") = {1, 4}
        /\ PositionsOf("Conv3dNormActivation") = {3}
        /\ Len(evald) <= 16
        /\ \A i \in 1..Len(evald) : evald[i].cls = CallClasses[i]

C5_Witness ==
    /\ call.op = "S3D"
    /\ Len(evald) >= 5
    /\ evald[2].cls = "MaxPool3d"
    /\ evald[3].cls = "Conv3dNormActivation"
    /\ evald[5].cls = "MaxPool3d"

\* C6: when S3D is constructed with a norm_layer option, the construction
\* completes and every Convolution-Normalization-Activation unit of the Feature
\* Extractor outside the Separable Units (the stem point convolution and the
\* four point convolutions of each of the nine Inception Blocks) is built with
\* that factory, while every sub-convolution of a Separable Unit keeps the
\* hard-coded normalisation.
C6_NormLayerThreaded ==
    (call.op = "S3D" /\ call.norm = PyCallable(CustomNorm)) =>
        /\ ret.err = "none"
        /\ obj.cls = "S3D"
        /\ Units(obj.mods[1], FALSE) =
              {[norm |-> CustomNorm, sep |-> FALSE], [norm |-> SepNorm, sep |-> TRUE]}

\* C7: the s3d factory called with pretrained weights constructs the network
\* with num_classes set to the number of categories of the weights and then
\* loads the checkpoint; when the checkpoint disagrees with the network the
\* call raises, returns no model and loads nothing; without weights nothing
\* is loaded.
C7_FactoryLoad ==
    call.op = "s3d" =>
        IF call.weights = "None" THEN ~loaded
        ELSE IF call.ckpt /\ call.nc \in {0, KineticsCategories}
        THEN /\ ret.err = "none"
             /\ obj.cls = "S3D"
             /\ obj.cout = KineticsCategories
             /\ loaded
        ELSE ret.err # "none" /\ obj.cls = "none" /\ ~loaded

\* the extents' geometry along the forward pass, one <<kernel, stride,
\* padding>> per axis and stage: the sixteen stages of the Feature Extractor
\* (an Inception Block keeps every extent) and the average pool of the head
Keep == <<1, 1, 0>>
TimeGeometry ==
    << <<7, 2, 3>>, Keep, Keep, <<3, 1, 1>>, Keep, Keep, Keep, <<3, 2, 1>>,
       Keep, Keep, Keep, Keep, Keep, <<2, 2, 0>>, Keep, Keep, <<2, 1, 0>> >>
SpaceGeometry ==
    << <<7, 2, 3>>, <<3, 2, 1>>, Keep, <<3, 1, 1>>, <<3, 2, 1>>, Keep, Keep, <<3, 2, 1>>,
       Keep, Keep, Keep, Keep, Keep, <<2, 2, 0>>, Keep, Keep, <<7, 1, 0>> >>

\* the first stage whose output extent is not positive, 0 when there is none
RECURSIVE FirstBad(_, _, _, _)
FirstBad(i, t, h, w) ==
    IF i > Len(TimeGeometry) THEN 0
    ELSE LET t2 == ConvOut(t, TimeGeometry[i][1], TimeGeometry[i][2], TimeGeometry[i][3])
             h2 == ConvOut(h, SpaceGeometry[i][1], SpaceGeometry[i][2], SpaceGeometry[i][3])
             w2 == ConvOut(w, SpaceGeometry[i][1], SpaceGeometry[i][2], SpaceGeometry[i][3])
         IN IF t2 <= 0 \/ h2 <= 0 \/ w2 <= 0 THEN i ELSE FirstBad(i + 1, t2, h2, w2)

\* C8: a forward pass on an input whose time, height or width extent is too
\* small raises at the first stage, in pipeline order, whose output extent
\* would be non-positive and produces no tensor; any other forward pass
\* returns an (N, num_classes) tensor.
C8_FailsAtFirstBadStage ==
    call.op = "S3D()(x)" =>
        LET bad == FirstBad(1, call.x[3], call.x[4], call.x[5])
        IN IF bad # 0
           THEN ret = RaiseAt("RuntimeError", bad)
           ELSE ret.err = "none" /\ ret.dims = <<call.x[1], call.nc>>

\* C9: constructing S3D with default options completes without error, and
\* every Inception Block call of the Feature Extractor passes the input channel
\* count and one list of four channel-count lists of lengths 1, 2, 2 and 1.
C9_DefaultConstruction ==
    (call.op = "S3D" /\ call.norm = PyNone /\ call.nc = DefaultNumClasses) =>
        /\ ret.err = "none"
        /\ obj.cls = "S3D"
        /\ \A i \in PositionsOf("SepInceptionBlock3D") :
              LET a == S3D_features_calls(call.norm)[i].args
              IN Len(a) \in {2, 3} /\ a[1].tag = "int" /\ UnpackError(a[2]) = "none"

\* C10: the forward pass of S3D returns (N, num_classes) exactly for the
\* inputs with T >= 13, H >= 209 and W >= 209, and raises for every other
\* input.
C10_LeastInput ==
    call.op = "S3D()(x)" =>
        /\ (call.x[3] >= 13 /\ call.x[4] >= 209 /\ call.x[5] >= 209)
              <=> ret.err = "none"
        /\ ret.err = "none" => ret.dims = <<call.x[1], call.nc>>
        /\ ret.err # "none" => ret.err = "RuntimeError"

====
